---- MODULE Spec2Model ----
(***************************************************************************)
(* The MRAM SPI driver of src/mram.c, src/mram.h as a state machine.       *)
(*                                                                         *)
(* One action per public operation.  An operation runs to completion; the  *)
(* outcomes of the capability calls it makes (gpio_write, spi_transfer)    *)
(* are an input of the action.  The device on the other end of the bus is  *)
(* the chip the header documents: a byte memory with a status register     *)
(* and a write-enable latch.                                               *)
(***************************************************************************)
EXTENDS Integers, Naturals, Sequences, FiniteSets, TLC

VARIABLES
    handle,      \* struct mram: gpio_write, spi_transfer, cs_pin
    cs,          \* level last successfully driven on the chip-select pin
    dev,         \* the chip: wel, sr, mem and the frame being clocked in
    prev,        \* the call before, when it mutated the chip and returned true
    call,        \* the operation that has just run, with its arguments
    ret,         \* what it returned: "true", "false", "crash", or "none"
    trace,       \* the capability calls it made, in order
    buffer,      \* the caller's destination buffer after the call
    status,      \* the caller's status variable after the call
    failedOps,   \* how many operations so far saw a capability call fail
    pinFailed    \* whether a gpio_write call has ever failed

vars == <<handle, cs, dev, prev, call, ret, trace, buffer, status, failedOps,
          pinFailed>>

---------------------------------------------------------------------------
(* Bounds of the model.                                                    *)

\* longest data length (other than SIZE_MAX) a caller passes
MaxLen == 2
\* operations in one run in which the environment fails a capability call
MaxFailedOps == 1

---------------------------------------------------------------------------
(* Program constants, src/mram.h.                                          *)

MRAM_GPIO_LOW == 0
MRAM_GPIO_HIGH == 1
MRAM_SIZE_BYTES == 512 * 1024
MRAM_MAX_ADDRESS == MRAM_SIZE_BYTES - 1
\* 0x7FFFF
MRAM_ADDRESS_MASK == 524287
MRAM_TRDP_US == 400
MRAM_TDP_US == 100
\* 0x06, 0x04, 0x05, 0x01, 0x03, 0x02, 0xB9, 0xAB
MRAM_CMD_WREN == 6
MRAM_CMD_WRDI == 4
MRAM_CMD_RDSR == 5
MRAM_CMD_WRSR == 1
MRAM_CMD_READ == 3
MRAM_CMD_WRITE == 2
MRAM_CMD_SLEEP == 185
MRAM_CMD_WAKE == 171
\* (1 << 1), (1 << 2), (1 << 3), (1 << 7)
MRAM_STATUS_WEL == 2
MRAM_STATUS_BP0 == 4
MRAM_STATUS_BP1 == 8
MRAM_STATUS_WPEN == 128

---------------------------------------------------------------------------
(* Machine integers.  A uint32_t or size_t value is a little-endian        *)
(* sequence of 16-bit limbs, so that 2^32 - 1 and 2^64 - 1 are values and  *)
(* sums wrap at the width of the type.                                     *)

LimbBase == 256 * 256

Limbs(x, n) ==
    [i \in 1..n |-> IF i = 1 THEN x % LimbBase
                    ELSE IF i = 2 THEN x \div LimbBase ELSE 0]

AllOnes(n) == [i \in 1..n |-> LimbBase - 1]

\* zero-extension (n >= Len(a)): the conversion of a narrower unsigned type
ZeroExtend(a, n) == [i \in 1..n |-> IF i <= Len(a) THEN a[i] ELSE 0]

RECURSIVE CarryOut(_, _, _)
CarryOut(a, b, i) ==
    IF i = 0 THEN 0 ELSE (a[i] + b[i] + CarryOut(a, b, i - 1)) \div LimbBase

\* a + b modulo 2^(16 * Len(a)): unsigned addition at the width of a and b
AddWrap(a, b) ==
    [i \in 1..Len(a) |-> (a[i] + b[i] + CarryOut(a, b, i - 1)) % LimbBase]

\* a - 1 modulo 2^(16 * Len(a))
SubOneWrap(a) == AddWrap(a, AllOnes(Len(a)))

RECURSIVE GreaterFrom(_, _, _)
GreaterFrom(a, b, i) ==
    IF i = 0 THEN FALSE
    ELSE IF a[i] # b[i] THEN a[i] > b[i]
    ELSE GreaterFrom(a, b, i - 1)

\* a > b for two values of the same width
Greater(a, b) == GreaterFrom(a, b, Len(a))

IsZero(a) == \A i \in 1..Len(a) : a[i] = 0

\* the value is below 2^31 and so an integer of the model
IsSmall(a) == /\ \A i \in 3..Len(a) : a[i] = 0
              /\ Len(a) >= 2 => a[2] < 32768

ToNat(a) == a[1] + (IF Len(a) >= 2 THEN a[2] * LimbBase ELSE 0)

\* a + l - 1 as a mathematical integer (one limb wider than either, l >= 1)
UnboundedLast(a, l) ==
    LET n == (IF Len(a) > Len(l) THEN Len(a) ELSE Len(l)) + 1
    IN  SubOneWrap(AddWrap(ZeroExtend(a, n), ZeroExtend(l, n)))

\* x & mask for a mask of the form 2^k - 1
AndLowMask(x, mask) == x % (mask + 1)

RECURSIVE BitAnd(_, _)
BitAnd(x, y) ==
    IF x = 0 \/ y = 0 THEN 0
    ELSE (x % 2) * (y % 2) + 2 * BitAnd(x \div 2, y \div 2)

RECURSIVE Pow2(_)
Pow2(n) == IF n = 0 THEN 1 ELSE 2 * Pow2(n - 1)

\* (uint8_t) x
Byte(x) == x % 256

---------------------------------------------------------------------------
(* The chip, as src/mram.h documents it: the command table, the status     *)
(* register bits, the write-enable latch.                                  *)

\* what the serial output carries while the chip drives nothing meaningful
MisoIdle == 255

MemAt(mem, a) == IF a \in DOMAIN mem THEN mem[a] ELSE 0

\* the status register as RDSR returns it: WPEN, BP1, BP0 stored, WEL the
\* latch, the reserved bits read as 0
StatusByte(d) == d.sr + (IF d.wel THEN MRAM_STATUS_WEL ELSE 0)

\* the bits WRSR stores: WEL is read-only, the reserved bits stay 0
StatusWritable == MRAM_STATUS_WPEN + MRAM_STATUS_BP1 + MRAM_STATUS_BP0

DevPowerUp == [wel |-> FALSE, sr |-> 0, mem |-> << >>, n |-> 0, opc |-> 0, a |-> 0]

\* chip-select falls: a new command frame starts
DevSelect(d) == [d EXCEPT !.n = 0, !.opc = 0, !.a = 0]

\* one byte clocked in while selected; miso is the byte clocked out with it
DevByte(d, b) ==
    IF d.n = 0
    THEN [d |-> [d EXCEPT !.n = 1, !.opc = b, !.a = 0], miso |-> MisoIdle]
    ELSE IF d.opc \in {MRAM_CMD_READ, MRAM_CMD_WRITE} /\ d.n < 4
    THEN LET a24 == d.a * 256 + b
         IN  [d |-> [d EXCEPT !.n = d.n + 1,
                              !.a = IF d.n = 3 THEN a24 % MRAM_SIZE_BYTES ELSE a24],
              miso |-> MisoIdle]
    ELSE IF d.opc = MRAM_CMD_READ
    THEN [d |-> [d EXCEPT !.a = (d.a + 1) % MRAM_SIZE_BYTES],
          miso |-> MemAt(d.mem, d.a)]
    ELSE IF d.opc = MRAM_CMD_WRITE
    THEN [d |-> [d EXCEPT !.a = (d.a + 1) % MRAM_SIZE_BYTES,
                          !.mem = IF d.wel THEN (d.a :> b) @@ d.mem ELSE d.mem],
          miso |-> MisoIdle]
    ELSE IF d.opc = MRAM_CMD_RDSR
    THEN [d |-> d, miso |-> StatusByte(d)]
    ELSE IF d.opc = MRAM_CMD_WRSR /\ d.n = 1
    THEN [d |-> [d EXCEPT !.n = 2,
                          !.sr = IF d.wel THEN BitAnd(b, StatusWritable) ELSE d.sr],
          miso |-> MisoIdle]
    ELSE [d |-> d, miso |-> MisoIdle]

RECURSIVE DevExchange(_, _, _, _)
DevExchange(d, wire, i, miso) ==
    IF i > Len(wire) THEN [d |-> d, miso |-> miso]
    ELSE LET r == DevByte(d, wire[i])
         IN  DevExchange(r.d, wire, i + 1, Append(miso, r.miso))

\* chip-select rises: WREN and WRDI complete, the frame ends
DevDeselect(d) ==
    [d EXCEPT !.wel = IF d.n = 1 /\ d.opc = MRAM_CMD_WREN THEN TRUE
                      ELSE IF d.n = 1 /\ d.opc = MRAM_CMD_WRDI THEN FALSE
                      ELSE d.wel,
              !.n = 0, !.opc = 0, !.a = 0]

---------------------------------------------------------------------------
(* The two capabilities of struct mram.  An operation threads a record m   *)
(* through its steps: the pin, the chip, the calls made so far, the        *)
(* outcomes the environment has chosen, and the operation's own locals.    *)

\* outcome of the next capability call: calls before failAt succeed, call
\* failAt fails (0: none fails), later calls succeed iff cleanupOk
Outcome(m) ==
    IF m.failAt = 0 \/ m.k + 1 < m.failAt THEN TRUE
    ELSE IF m.k + 1 = m.failAt THEN FALSE
    ELSE m.cleanupOk

Event(fn, pin, level, tx, rxcap, len, rx, ok) ==
    [fn |-> fn, pin |-> pin, level |-> level, tx |-> tx, rxcap |-> rxcap,
     len |-> len, rx |-> rx, ok |-> ok]

\* mram->gpio_write(pin, level)
gpio_write(m, pin, level) ==
    LET ok == Outcome(m)
    IN  [m EXCEPT !.k = m.k + 1,
                  !.ret = ok,
                  !.trace = Append(m.trace,
                               Event("gpio", pin, level, << >>, FALSE, 0, << >>, ok)),
                  !.cs = IF ok THEN level ELSE m.cs,
                  !.dev = IF ok /\ m.cs = MRAM_GPIO_HIGH /\ level = MRAM_GPIO_LOW
                          THEN DevSelect(m.dev)
                          ELSE IF ok /\ m.cs = MRAM_GPIO_LOW /\ level = MRAM_GPIO_HIGH
                          THEN DevDeselect(m.dev)
                          ELSE m.dev]

\* mram->spi_transfer(tx_buf, rx_buf, len): tx is the outbound array as the
\* driver built it, rxcap whether rx_buf is non-NULL.  Bytes read past the
\* end of tx are whatever the stack holds there (m.junk).
spi_transfer(m, tx, rxcap, len) ==
    LET ok   == Outcome(m)
        wire == [i \in 1..len |-> IF i <= Len(tx) THEN tx[i] ELSE m.junk]
        x    == IF m.cs = MRAM_GPIO_LOW
                THEN DevExchange(m.dev, wire, 1, << >>)
                ELSE [d |-> m.dev, miso |-> [i \in 1..len |-> MisoIdle]]
        rx   == IF ok /\ rxcap THEN x.miso ELSE << >>
    IN  [m EXCEPT !.k = m.k + 1,
                  !.ret = ok,
                  !.trace = Append(m.trace,
                               Event("spi", 0, 0, tx, rxcap, len, rx, ok)),
                  !.dev = IF ok THEN x.d ELSE m.dev,
                  !.rx = rx]

\* usleep(us)
usleep(m, us) ==
    [m EXCEPT !.trace = Append(m.trace,
                           Event("usleep", 0, 0, << >>, FALSE, us, << >>, TRUE))]

Return(m, b) == [m EXCEPT !.ret = b]

\* the process dies (a memory fault): the operation never returns
Crash(m) == [m EXCEPT !.crash = TRUE, !.ret = FALSE]

\* if (!call) { Failed } else { Rest }, m the machine after the call
Branch(m, Failed(_), Rest(_)) == IF ~m.ret THEN Failed(m) ELSE Rest(m)

\* if (!call) return false; Rest
Then(m, Rest(_)) == IF ~m.ret THEN m ELSE Rest(m)

---------------------------------------------------------------------------
(* src/mram.c, one operator per function.                                  *)

\* a variant that tries a failed exchange a second time
mram_transfer_byte_retry(m, tx_byte, wantRx) ==
    IF m.hNull THEN Return(m, FALSE)
    ELSE Branch(spi_transfer(m, <<tx_byte>>, wantRx, 1),
                LAMBDA m1 : spi_transfer(m1, <<tx_byte>>, wantRx, 1),
                LAMBDA m1 : Return(m1, TRUE))

mram_transfer_byte(m, tx_byte, wantRx) ==
    IF m.hNull THEN Return(m, FALSE)
    ELSE Then(spi_transfer(m, <<tx_byte>>, wantRx, 1), LAMBDA m1 :
         IF wantRx THEN Return([m1 EXCEPT !.rx_byte = m1.rx[1]], TRUE)
         ELSE Return(m1, TRUE))

\* a variant that sends the command whether or not chip-select went low
CommandFrame_blind(m, cmd) ==
    IF m.hNull THEN Return(m, FALSE)
    ELSE Then(mram_transfer_byte(gpio_write(m, m.cs_pin, MRAM_GPIO_LOW),
                                 cmd, FALSE), LAMBDA m2 :
         Then(gpio_write(m2, m2.cs_pin, MRAM_GPIO_HIGH), LAMBDA m3 :
         Return(m3, TRUE)))

\* the body shared by the one-byte commands WREN, WRDI, SLEEP, WAKE:
\* CS low, the command byte, CS high
CommandFrame(m, cmd) ==
    IF m.hNull THEN Return(m, FALSE)
    ELSE Then(gpio_write(m, m.cs_pin, MRAM_GPIO_LOW), LAMBDA m1 :
         Then(mram_transfer_byte(m1, cmd, FALSE), LAMBDA m2 :
         Then(gpio_write(m2, m2.cs_pin, MRAM_GPIO_HIGH), LAMBDA m3 :
         Return(m3, TRUE))))

mram_write_enable(m) == CommandFrame(m, MRAM_CMD_WREN)

\* a variant that sends the wrong command
mram_write_disable_wren(m) == CommandFrame(m, MRAM_CMD_WREN)

mram_write_disable(m) == CommandFrame(m, MRAM_CMD_WRDI)

\* mram->gpio_write = gpio_write; mram->spi_transfer = ...; mram->cs_pin = ...
AssignHandle(m, pin) ==
    [m EXCEPT !.handle = [gpio_write |-> "fn", spi_transfer |-> "fn",
                          cs_pin |-> pin],
              !.cs_pin = pin]

\* a variant that leaves the latch as it finds it
mram_init_bare(m, gpioNull, spiNull, pin) ==
    IF m.hNull \/ gpioNull \/ spiNull THEN Return(m, FALSE)
    ELSE Then(gpio_write(AssignHandle(m, pin), pin, MRAM_GPIO_HIGH), LAMBDA m1 :
         Return(m1, TRUE))

\* a variant that fills in the handle before it looks at the capabilities
mram_init_eager(m, gpioNull, spiNull, pin) ==
    IF m.hNull THEN Return(m, FALSE)
    ELSE IF gpioNull \/ spiNull
    THEN Return([m EXCEPT !.handle =
                     [gpio_write |-> IF gpioNull THEN "NULL" ELSE "fn",
                      spi_transfer |-> IF spiNull THEN "NULL" ELSE "fn",
                      cs_pin |-> pin]], FALSE)
    ELSE Then(gpio_write(AssignHandle(m, pin), pin, MRAM_GPIO_HIGH), LAMBDA m1 :
         mram_write_disable(m1))

mram_init(m, gpioNull, spiNull, pin) ==
    IF m.hNull \/ gpioNull \/ spiNull THEN Return(m, FALSE)
    ELSE Then(gpio_write(AssignHandle(m, pin), pin, MRAM_GPIO_HIGH), LAMBDA m1 :
         mram_write_disable(m1))

\* a variant without the len == 0 test
ArgsInvalid_nolen(hNull, ptrNull, len) == hNull \/ ptrNull

\* mram == NULL || buffer == NULL || len == 0
ArgsInvalid(hNull, ptrNull, len) == hNull \/ ptrNull \/ IsZero(len)

\* (addr > MRAM_MAX_ADDRESS) || ((addr + len - 1) > MRAM_MAX_ADDRESS), addr a
\* uint32_t converted to the width of size_t for the sum
RangeInvalid(addr, len) ==
    \/ Greater(addr, Limbs(MRAM_MAX_ADDRESS, Len(addr)))
    \/ Greater(SubOneWrap(AddWrap(ZeroExtend(addr, Len(len)), len)),
               Limbs(MRAM_MAX_ADDRESS, Len(len)))

\* a variant that keeps 16 bits of the address
MaskAddress_low(addr) == AndLowMask(ToNat(addr), 65535)

\* addr &= MRAM_ADDRESS_MASK, for an addr the range check let through
MaskAddress(addr) == AndLowMask(ToNat(addr), MRAM_ADDRESS_MASK)

\* the 4-byte header: the opcode, then addr >> 16, addr >> 8, addr
Header(cmd, a) ==
    <<cmd, Byte(a \div 65536), Byte(a \div 256), Byte(a)>>

\* len + 4 at the width of size_t: the size of the array and of the exchange
FrameLen(len) == AddWrap(len, Limbs(4, Len(len)))

\* a variant that copies from one byte too early
CopyOut_early(m, len) ==
    IF Greater(len, FrameLen(len)) THEN Crash(m)
    ELSE [m EXCEPT !.buffer = [i \in 1..ToNat(len) |-> m.rx[i + 3]]]

\* buffer[i] = rx_buf[i + 4] for i < len; reading past rx_buf (len + 4
\* wrapped) runs off the stack
CopyOut(m, len) ==
    IF Greater(len, FrameLen(len)) THEN Crash(m)
    ELSE [m EXCEPT !.buffer = [i \in 1..ToNat(len) |-> m.rx[i + 4]]]

\* mram_read from the declaration of tx_buf on; a is the masked address
mram_read_transfer(m, a, len) ==
    IF ~IsSmall(FrameLen(len)) THEN Crash(m)
    ELSE Then(gpio_write(m, m.cs_pin, MRAM_GPIO_LOW), LAMBDA m1 :
         Branch(spi_transfer(m1, Header(MRAM_CMD_READ, a), TRUE,
                             ToNat(FrameLen(len))),
                LAMBDA m2 : Return(gpio_write(m2, m2.cs_pin, MRAM_GPIO_HIGH), FALSE),
                LAMBDA m2 :
         Then(CopyOut(m2, len), LAMBDA m3 :
         Then(gpio_write(m3, m3.cs_pin, MRAM_GPIO_HIGH), LAMBDA m4 :
         Return(m4, TRUE)))))

mram_read(m, addr, bufNull, len) ==
    IF ArgsInvalid(m.hNull, bufNull, len) THEN Return(m, FALSE)
    ELSE IF RangeInvalid(addr, len) THEN Return(m, FALSE)
    ELSE mram_read_transfer(m, MaskAddress(addr), len)

\* tx_buf of mram_write: the header, then data[0 .. len - 1]
WriteFrame(a, data, len) ==
    Header(MRAM_CMD_WRITE, a) \o SubSeq(data, 1, ToNat(len))

\* a variant that sends the header and the data as two exchanges
mram_write_transfer_split(m, a, data, len) ==
    IF ~IsSmall(FrameLen(len)) \/ Greater(len, FrameLen(len)) THEN Crash(m)
    ELSE Then(gpio_write(m, m.cs_pin, MRAM_GPIO_LOW), LAMBDA m1 :
         Then(spi_transfer(m1, Header(MRAM_CMD_WRITE, a), FALSE, 4), LAMBDA m2 :
         Then(spi_transfer(m2, SubSeq(data, 1, ToNat(len)), FALSE, ToNat(len)),
              LAMBDA m3 :
         Then(gpio_write(m3, m3.cs_pin, MRAM_GPIO_HIGH), LAMBDA m4 :
         Return(m4, TRUE)))))

\* mram_write from the declaration of tx_buf to the end of the data frame;
\* filling a tx_buf whose size len + 4 wrapped runs off the stack
mram_write_transfer(m, a, data, len) ==
    IF ~IsSmall(FrameLen(len)) \/ Greater(len, FrameLen(len)) THEN Crash(m)
    ELSE Then(gpio_write(m, m.cs_pin, MRAM_GPIO_LOW), LAMBDA m1 :
         Branch(spi_transfer(m1, WriteFrame(a, data, len), FALSE,
                             ToNat(FrameLen(len))),
                LAMBDA m2 : Return(gpio_write(m2, m2.cs_pin, MRAM_GPIO_HIGH), FALSE),
                LAMBDA m2 :
         Then(gpio_write(m2, m2.cs_pin, MRAM_GPIO_HIGH), LAMBDA m3 :
         Return(m3, TRUE))))

\* a variant that ignores the result of the write-disable
mram_write_finish_ignore(m) == Return(mram_write_disable(m), TRUE)

\* the end of mram_write: disable writing after the operation
mram_write_finish(m) ==
    Then(mram_write_disable(m), LAMBDA m1 : Return(m1, TRUE))

mram_write(m, addr, dataNull, data, len) ==
    IF ArgsInvalid(m.hNull, dataNull, len) THEN Return(m, FALSE)
    ELSE IF RangeInvalid(addr, len) THEN Return(m, FALSE)
    ELSE Then(mram_write_enable(m), LAMBDA m1 :
         Then(mram_write_transfer(m1, MaskAddress(addr), data, len), LAMBDA m2 :
         mram_write_finish(m2)))

\* the body shared by mram_sleep and mram_wake: the command, then the delay
PowerCommand(m, cmd, us) ==
    Then(CommandFrame(m, cmd), LAMBDA m1 : Return(usleep(m1, us), TRUE))

mram_sleep(m) == PowerCommand(m, MRAM_CMD_SLEEP, MRAM_TDP_US)

\* a variant that waits only as long as mram_sleep does
mram_wake_short(m) == PowerCommand(m, MRAM_CMD_WAKE, MRAM_TDP_US)

mram_wake(m) == PowerCommand(m, MRAM_CMD_WAKE, MRAM_TRDP_US)

\* a variant that stores to *status before the filler byte is exchanged
mram_read_status_register_early(m, statusNull) ==
    IF m.hNull \/ statusNull THEN Return(m, FALSE)
    ELSE Then(gpio_write(m, m.cs_pin, MRAM_GPIO_LOW), LAMBDA m1 :
         Then(mram_transfer_byte(m1, MRAM_CMD_RDSR, FALSE), LAMBDA m2 :
         Then(mram_transfer_byte([m2 EXCEPT !.status = m2.rx_byte], 255, TRUE),
              LAMBDA m3 :
         Then(gpio_write([m3 EXCEPT !.status = m3.rx_byte],
                         m3.cs_pin, MRAM_GPIO_HIGH), LAMBDA m4 :
         Return(m4, TRUE)))))

mram_read_status_register(m, statusNull) ==
    IF m.hNull \/ statusNull THEN Return(m, FALSE)
    ELSE Then(gpio_write(m, m.cs_pin, MRAM_GPIO_LOW), LAMBDA m1 :
         Then(mram_transfer_byte(m1, MRAM_CMD_RDSR, FALSE), LAMBDA m2 :
         Then(mram_transfer_byte(m2, 255, TRUE), LAMBDA m3 :
         Then(gpio_write([m3 EXCEPT !.status = m3.rx_byte],
                         m3.cs_pin, MRAM_GPIO_HIGH), LAMBDA m4 :
         Return(m4, TRUE)))))

\* mram_write_status_register between write-enable and write-disable
mram_write_status_transfer(m, v) ==
    Then(gpio_write(m, m.cs_pin, MRAM_GPIO_LOW), LAMBDA m1 :
    Then(mram_transfer_byte(m1, MRAM_CMD_WRSR, FALSE), LAMBDA m2 :
    Then(mram_transfer_byte(m2, v, FALSE), LAMBDA m3 :
    Then(gpio_write(m3, m3.cs_pin, MRAM_GPIO_HIGH), LAMBDA m4 :
    Return(m4, TRUE)))))

\* a variant that does not set the latch first
mram_write_status_register_noenable(m, v) ==
    IF m.hNull THEN Return(m, FALSE)
    ELSE Then(mram_write_status_transfer(m, v), LAMBDA m2 :
         Then(mram_write_disable(m2), LAMBDA m3 :
         Return(m3, TRUE)))

\* a variant that leaves the latch set
mram_write_status_register_nodisable(m, v) ==
    IF m.hNull THEN Return(m, FALSE)
    ELSE Then(mram_write_enable(m), LAMBDA m1 :
         Then(mram_write_status_transfer(m1, v), LAMBDA m2 :
         Return(m2, TRUE)))

mram_write_status_register(m, v) ==
    IF m.hNull THEN Return(m, FALSE)
    ELSE Then(mram_write_enable(m), LAMBDA m1 :
         Then(mram_write_status_transfer(m1, v), LAMBDA m2 :
         Then(mram_write_disable(m2), LAMBDA m3 :
         Return(m3, TRUE))))

\* the query's status is a local: the caller's status variable is untouched
KeepStatus(m, m1) == [m1 EXCEPT !.status = m.status]

\* the body shared by the three queries: a status read into a local, then
\* return (status & mask) converted to bool
StatusQuery(m, mask) ==
    IF m.hNull THEN Return(m, FALSE)
    ELSE Branch(mram_read_status_register(m, FALSE),
                LAMBDA m1 : Return(KeepStatus(m, m1), FALSE),
                LAMBDA m1 : Return(KeepStatus(m, m1), BitAnd(m1.status, mask) # 0))

mram_is_write_enabled(m) == StatusQuery(m, 2)

mram_is_write_protected(m) == StatusQuery(m, 128)

\* a variant that looks at both block-protect bits
mram_is_block_protected_any(m, block_number) ==
    StatusQuery(m, MRAM_STATUS_BP0 + MRAM_STATUS_BP1)

\* status & (0x04 << block_number)
mram_is_block_protected(m, block_number) ==
    StatusQuery(m, 4 * Pow2(block_number))

---------------------------------------------------------------------------
(* The callers: what a program passes to the driver.                       *)

\* size_t is 64 bits wide (four limbs), uint32_t 32 bits (two limbs)
SizeLimbs == 4
AddrLimbs == 2

SIZE_MAX == AllOnes(SizeLimbs)

AddrVals ==
    {Limbs(x, AddrLimbs) : x \in {MRAM_MAX_ADDRESS - 1, MRAM_MAX_ADDRESS,
                                   MRAM_MAX_ADDRESS + 1}}
    \cup {AllOnes(AddrLimbs)}

LenVals == {Limbs(x, SizeLimbs) : x \in 0..MaxLen} \cup {SIZE_MAX}

\* the caller's source bytes: the first len bytes of a pattern (one byte
\* when len is not a length any array has)
Patterns == {<<170, 85, 51, 204>>}
DataVals(len) ==
    {SubSeq(p, 1, IF IsSmall(len) THEN ToNat(len) ELSE 1) : p \in Patterns}

\* the caller's destination buffer before a read
BufInit(len) == [i \in 1..(IF IsSmall(len) THEN ToNat(len) ELSE 1) |-> 17]

StatusVals == {1, 4, 8, 130}

\* the inputs of the runs that vary something else
AddrFew == {Limbs(MRAM_MAX_ADDRESS - 1, AddrLimbs)}
LenFew == {Limbs(x, SizeLimbs) : x \in 1..MaxLen}
StatusFew == {4}
BlockVals == {0, 1, 5}
PinVals == {7}
JunkVals == {165}
NoLimbs == Limbs(0, SizeLimbs)

\* which of the handle and the buffer pointer a caller passes as NULL
NullVals == {<<FALSE, FALSE>>, <<TRUE, FALSE>>, <<FALSE, TRUE>>}

NoHandle == [gpio_write |-> "NULL", spi_transfer |-> "NULL", cs_pin |-> 0]

Usable(h) == h.gpio_write = "fn" /\ h.spi_transfer = "fn"

Call(op, hNull, addr, ptrNull, len, data, v) ==
    [op |-> op, hNull |-> hNull, addr |-> addr, ptrNull |-> ptrNull,
     len |-> len, data |-> data, v |-> v]

NoCall == Call("none", FALSE, Limbs(0, AddrLimbs), FALSE, NoLimbs, << >>, 0)

\* the outcomes the environment gives the capability calls of one operation
NoFailure == [failAt |-> 0, cleanupOk |-> TRUE]

\* any one of the n calls an operation makes may be the first to fail
Plans(n) ==
    {NoFailure} \cup
    (IF failedOps >= MaxFailedOps THEN {}
     ELSE {[failAt |-> k, cleanupOk |-> b] : k \in 1..n, b \in BOOLEAN})

\* the machine an operation starts from
Start(hNull, p, junk, buf) ==
    [hNull |-> hNull, handle |-> handle, cs_pin |-> handle.cs_pin,
     cs |-> cs, dev |-> dev, trace |-> << >>, k |-> 0,
     failAt |-> p.failAt, cleanupOk |-> p.cleanupOk, junk |-> junk,
     rx |-> << >>, rx_byte |-> 0, ret |-> FALSE, crash |-> FALSE,
     buffer |-> buf, status |-> 238]

SomeFailed(t) == \E i \in 1..Len(t) : ~t[i].ok

PinFailedIn(t) == \E i \in 1..Len(t) : t[i].fn = "gpio" /\ ~t[i].ok

\* the operation is over: its effects become the state
Finish(m, c) ==
    /\ handle' = m.handle
    /\ cs' = m.cs
    /\ dev' = m.dev
    /\ prev' = prev
    /\ call' = c
    /\ ret' = IF m.crash THEN "crash" ELSE IF m.ret THEN "true" ELSE "false"
    /\ trace' = m.trace
    /\ buffer' = m.buffer
    /\ status' = m.status
    /\ failedOps' = failedOps + (IF SomeFailed(m.trace) THEN 1 ELSE 0)
    /\ pinFailed' = (pinFailed \/ PinFailedIn(m.trace))

\* a process that has not crashed calls the driver with a NULL handle or
\* with a handle mram_init has filled in
MayCall(hNull) == call.op = "none" /\ (hNull \/ Usable(handle))

Init ==
    /\ handle = NoHandle
    /\ cs \in {MRAM_GPIO_LOW, MRAM_GPIO_HIGH}
    /\ dev = DevPowerUp
    /\ prev = NoCall
    /\ call = NoCall
    /\ ret = "none"
    /\ trace = << >>
    /\ buffer = << >>
    /\ status = 238
    /\ failedOps = 0
    /\ pinFailed = FALSE

Simple(op, hNull) == Call(op, hNull, Limbs(0, AddrLimbs), FALSE, NoLimbs, << >>, 0)

DoInit ==
    \E hNull, gpioNull, spiNull \in BOOLEAN, pin \in PinVals :
        \E p \in Plans(mram_init(Start(hNull, NoFailure, 0, << >>),
                                 gpioNull, spiNull, pin).k) :
            /\ call.op = "none"
            /\ Finish(mram_init(Start(hNull, p, 0, << >>), gpioNull, spiNull, pin),
                      Call("init", hNull, Limbs(0, AddrLimbs), gpioNull \/ spiNull,
                           NoLimbs, << >>, pin))

DoWriteEnable ==
    \E hNull \in BOOLEAN :
        \E p \in Plans(mram_write_enable(Start(hNull, NoFailure, 0, << >>)).k) :
            /\ MayCall(hNull)
            /\ Finish(mram_write_enable(Start(hNull, p, 0, << >>)),
                      Simple("write_enable", hNull))

DoWriteDisable ==
    \E hNull \in BOOLEAN :
        \E p \in Plans(mram_write_disable(Start(hNull, NoFailure, 0, << >>)).k) :
            /\ MayCall(hNull)
            /\ Finish(mram_write_disable(Start(hNull, p, 0, << >>)),
                      Simple("write_disable", hNull))

DoRead(addrs, lens) ==
    \E nulls \in NullVals, addr \in addrs, len \in lens, junk \in JunkVals :
        \E p \in Plans(mram_read(Start(nulls[1], NoFailure, junk, BufInit(len)),
                                 addr, nulls[2], len).k) :
            /\ MayCall(nulls[1])
            /\ Finish(mram_read(Start(nulls[1], p, junk, BufInit(len)),
                                addr, nulls[2], len),
                      Call("read", nulls[1], addr, nulls[2], len, << >>, 0))

DoWrite(addrs, lens) ==
    \E nulls \in NullVals, addr \in addrs, len \in lens :
        \E data \in DataVals(len) :
            \E p \in Plans(mram_write(Start(nulls[1], NoFailure, 0, << >>),
                                      addr, nulls[2], data, len).k) :
                /\ MayCall(nulls[1])
                /\ Finish(mram_write(Start(nulls[1], p, 0, << >>),
                                     addr, nulls[2], data, len),
                          Call("write", nulls[1], addr, nulls[2], len, data, 0))

DoSleep ==
    \E hNull \in BOOLEAN :
        \E p \in Plans(mram_sleep(Start(hNull, NoFailure, 0, << >>)).k) :
            /\ MayCall(hNull)
            /\ Finish(mram_sleep(Start(hNull, p, 0, << >>)), Simple("sleep", hNull))

DoWake ==
    \E hNull \in BOOLEAN :
        \E p \in Plans(mram_wake(Start(hNull, NoFailure, 0, << >>)).k) :
            /\ MayCall(hNull)
            /\ Finish(mram_wake(Start(hNull, p, 0, << >>)), Simple("wake", hNull))

DoReadStatus ==
    \E hNull, statusNull \in BOOLEAN :
        \E p \in Plans(mram_read_status_register(
                           Start(hNull, NoFailure, 0, << >>), statusNull).k) :
            /\ MayCall(hNull)
            /\ Finish(mram_read_status_register(Start(hNull, p, 0, << >>),
                                                statusNull),
                      Call("read_status", hNull, Limbs(0, AddrLimbs), statusNull,
                           NoLimbs, << >>, 0))

DoWriteStatus(vals) ==
    \E hNull \in BOOLEAN, v \in vals :
        \E p \in Plans(mram_write_status_register(
                           Start(hNull, NoFailure, 0, << >>), v).k) :
            /\ MayCall(hNull)
            /\ Finish(mram_write_status_register(Start(hNull, p, 0, << >>), v),
                      Call("write_status", hNull, Limbs(0, AddrLimbs), FALSE,
                           NoLimbs, << >>, v))

DoIsWriteEnabled ==
    \E hNull \in BOOLEAN :
        \E p \in Plans(mram_is_write_enabled(Start(hNull, NoFailure, 0, << >>)).k) :
            /\ MayCall(hNull)
            /\ Finish(mram_is_write_enabled(Start(hNull, p, 0, << >>)),
                      Simple("is_write_enabled", hNull))

DoIsWriteProtected ==
    \E hNull \in BOOLEAN :
        \E p \in Plans(mram_is_write_protected(Start(hNull, NoFailure, 0, << >>)).k) :
            /\ MayCall(hNull)
            /\ Finish(mram_is_write_protected(Start(hNull, p, 0, << >>)),
                      Simple("is_write_protected", hNull))

DoIsBlockProtected ==
    \E hNull \in BOOLEAN, n \in BlockVals :
        \E p \in Plans(mram_is_block_protected(
                           Start(hNull, NoFailure, 0, << >>), n).k) :
            /\ MayCall(hNull)
            /\ Finish(mram_is_block_protected(Start(hNull, p, 0, << >>), n),
                      Call("is_block_protected", hNull, Limbs(0, AddrLimbs), FALSE,
                           NoLimbs, << >>, n))

\* the caller takes the result and goes on; a crashed process does not.
\* prev keeps the call when it is one of ops and returned true
DoReturn(ops) ==
    /\ call.op # "none"
    /\ ret # "crash"
    /\ prev' = IF call.op \in ops /\ ret = "true" THEN call ELSE NoCall
    /\ call' = NoCall
    /\ ret' = "none"
    /\ trace' = << >>
    /\ buffer' = << >>
    /\ status' = 238
    /\ UNCHANGED <<handle, cs, dev, failedOps, pinFailed>>

\* the operations that change the chip's memory or status register
Mutating == {"write", "write_status"}

\* every operation, on one address and one status value
Next ==
    \/ DoReturn(Mutating)
    \/ DoInit
    \/ DoWriteEnable
    \/ DoWriteDisable
    \/ DoRead(AddrFew, LenFew)
    \/ DoWrite(AddrFew, LenFew)
    \/ DoSleep
    \/ DoWake
    \/ DoReadStatus
    \/ DoWriteStatus(StatusFew)
    \/ DoIsWriteEnabled
    \/ DoIsWriteProtected
    \/ DoIsBlockProtected

Spec == Init /\ [][Next]_vars

\* the data path over all addresses and lengths; the status register is
\* never written
NextData ==
    \/ DoReturn(Mutating)
    \/ DoInit
    \/ DoWriteEnable
    \/ DoWriteDisable
    \/ DoRead(AddrVals, LenVals)
    \/ DoWrite(AddrVals, LenVals)
    \/ DoSleep
    \/ DoWake
    \/ DoReadStatus
    \/ DoIsWriteEnabled
    \/ DoIsWriteProtected
    \/ DoIsBlockProtected

SpecData == Init /\ [][NextData]_vars

\* the status register over all its values; the memory is never written
NextStatus ==
    \/ DoReturn(Mutating \cup {"read"})
    \/ DoInit
    \/ DoWriteEnable
    \/ DoWriteDisable
    \/ DoRead(AddrFew, LenFew)
    \/ DoSleep
    \/ DoWake
    \/ DoReadStatus
    \/ DoWriteStatus(StatusVals)
    \/ DoIsWriteEnabled
    \/ DoIsWriteProtected
    \/ DoIsBlockProtected

SpecStatus == Init /\ [][NextStatus]_vars

---------------------------------------------------------------------------
(* Reading a trace: the bus transactions an operation made.                *)

IsGpio(e, level) == e.fn = "gpio" /\ e.level = level
IsSpi(e) == e.fn = "spi"

\* a transaction opens at a write of LOW to chip-select; opc is the first
\* byte exchanged in it (-1: none), ok whether its calls all succeeded,
\* closed whether a write of HIGH followed
RECURSIVE TxnsFrom(_, _, _)
TxnsFrom(t, i, acc) ==
    IF i > Len(t) THEN acc
    ELSE IF IsGpio(t[i], MRAM_GPIO_LOW)
    THEN TxnsFrom(t, i + 1,
                  Append(acc, [opc |-> -1, ok |-> t[i].ok, closed |-> FALSE]))
    ELSE IF acc = << >> \/ acc[Len(acc)].closed
    THEN TxnsFrom(t, i + 1, acc)
    ELSE IF IsSpi(t[i])
    THEN TxnsFrom(t, i + 1,
                  [acc EXCEPT ![Len(acc)].opc = IF @ = -1 THEN t[i].tx[1] ELSE @,
                              ![Len(acc)].ok = @ /\ t[i].ok])
    ELSE IF IsGpio(t[i], MRAM_GPIO_HIGH)
    THEN TxnsFrom(t, i + 1,
                  [acc EXCEPT ![Len(acc)].closed = TRUE,
                              ![Len(acc)].ok = @ /\ t[i].ok])
    ELSE TxnsFrom(t, i + 1, acc)

Txns == TxnsFrom(trace, 1, << >>)

\* a transaction that ran to its end: every call in it succeeded
Completed(x) == x.ok /\ x.closed

\* a transaction of command c: its first byte is c, or the write of LOW that
\* opens it failed and the operation ended before the byte
IsCommand(x, c) == x.opc = c \/ (x.opc = -1 /\ ~x.ok)

FirstFailure == CHOOSE i \in 1..Len(trace) :
                    ~trace[i].ok /\ \A j \in 1..(i - 1) : trace[j].ok

AllSucceeded == \A i \in 1..Len(trace) : trace[i].ok

\* the opcode of the transaction that mutates the chip in the operation
MutatingOpcode ==
    IF call.op = "write" THEN MRAM_CMD_WRITE ELSE MRAM_CMD_WRSR

\* a + l - 1 > 524287 over the integers, for the arguments of call c
BeyondEnd(c) ==
    Greater(UnboundedLast(c.addr, c.len),
            Limbs(MRAM_MAX_ADDRESS, SizeLimbs + 1))

CallBeyondEnd == BeyondEnd(call)

\* a call with usable pointers and l >= 1 bytes inside the array
InRange(c) ==
    ~c.hNull /\ ~c.ptrNull /\ ~IsZero(c.len) /\ ~BeyondEnd(c)

---------------------------------------------------------------------------
(* The claims.                                                             *)

\* C1: a read or write of l >= 1 bytes at a with a + l - 1 > 524287 (over the
\* integers) returns false and makes no capability call.
C1_BeyondEndRejected ==
    (call.op \in {"read", "write"} /\ ~IsZero(call.len) /\ CallBeyondEnd)
        => (ret = "false" /\ trace = << >>)

\* C2: an operation that drove chip-select low and then had a byte exchange
\* fail writes HIGH to chip-select before it returns false.
C2_DeselectAfterFailedExchange ==
    (/\ call.op \in {"write_enable", "write_disable", "read", "write", "sleep",
                     "wake", "read_status", "write_status"}
     /\ \E i \in 1..Len(trace) :
            /\ IsSpi(trace[i]) /\ ~trace[i].ok
            /\ \E j \in 1..(i - 1) : IsGpio(trace[j], MRAM_GPIO_LOW) /\ trace[j].ok)
        => \E i \in 1..Len(trace) :
               /\ IsSpi(trace[i]) /\ ~trace[i].ok
               /\ \E k \in (i + 1)..Len(trace) : IsGpio(trace[k], MRAM_GPIO_HIGH)

\* C3 as claimed: in mram_write and mram_write_status_register the mutating
\* transaction, once started, has a write-enable transaction right before it
\* and a write-disable transaction right after it, whether it succeeded or not.
C3_BracketedAlways ==
    call.op \in {"write", "write_status"} =>
        \A i \in 1..Len(Txns) :
            Txns[i].opc = MutatingOpcode =>
                /\ i > 1 /\ Txns[i - 1].opc = MRAM_CMD_WREN
                /\ i < Len(Txns) /\ IsCommand(Txns[i + 1], MRAM_CMD_WRDI)

\* C3 as amended: the mutating transaction has a completed write-enable
\* transaction right before it; a write-disable transaction follows it, as
\* the last transaction of the operation, exactly when the mutating
\* transaction completed; when it did not, the operation ends there and
\* returns false.
C3_BracketedOnSuccess ==
    call.op \in {"write", "write_status"} =>
        \A i \in 1..Len(Txns) :
            Txns[i].opc = MutatingOpcode =>
                /\ i = 2
                /\ Txns[1].opc = MRAM_CMD_WREN /\ Completed(Txns[1])
                /\ Completed(Txns[2]) =>
                       Len(Txns) = 3 /\ IsCommand(Txns[3], MRAM_CMD_WRDI)
                /\ ~Completed(Txns[2]) => Len(Txns) = 2 /\ ret = "false"

C3_Witness ==
    /\ call.op = "write" /\ ret = "false"
    /\ Len(Txns) = 2 /\ Txns[1].opc = MRAM_CMD_WREN /\ Completed(Txns[1])
    /\ Txns[2].opc = MRAM_CMD_WRITE /\ ~Txns[2].ok

\* C4: mram_read makes one byte exchange, of length 4 + len, whose outbound
\* buffer holds 4 + len bytes; on success buffer[i] is inbound byte i + 4.
C4_ReadExchange ==
    (call.op = "read" /\ IsSmall(call.len) /\ \E i \in 1..Len(trace) : IsSpi(trace[i]))
        => /\ Cardinality({i \in 1..Len(trace) : IsSpi(trace[i])}) = 1
           /\ \A i \in 1..Len(trace) :
                  IsSpi(trace[i]) =>
                      /\ trace[i].len = 4 + ToNat(call.len)
                      /\ trace[i].len <= Len(trace[i].tx)
                      /\ ret = "true" =>
                             \A b \in 1..ToNat(call.len) :
                                 buffer[b] = trace[i].rx[b + 4]

\* C5: while no capability call has ever failed, a write of l >= 1 bytes at
\* a with a + l - 1 <= 524287 returns true and changes no byte outside
\* [a, a + l - 1], and a read of l bytes at a right after it returns true
\* with the bytes written.
C5_WriteAccepted ==
    (call.op = "write" /\ InRange(call) /\ failedOps = 0) => ret = "true"

C5_ReadBack ==
    (/\ call.op = "read" /\ InRange(call)
     /\ prev.op = "write" /\ prev.addr = call.addr /\ prev.len = call.len
     /\ failedOps = 0)
        => (ret = "true" /\ buffer = prev.data)

C5_OutsideUnchanged ==
    (call'.op = "write" /\ InRange(call') /\ failedOps' = 0) =>
        \A x \in DOMAIN dev.mem \cup DOMAIN dev'.mem :
            (x < ToNat(call'.addr) \/ x > ToNat(call'.addr) + ToNat(call'.len) - 1)
                => MemAt(dev'.mem, x) = MemAt(dev.mem, x)

C6_InvalidArgsRejected ==
    (call.op \in {"read", "write"}
     /\ (call.hNull \/ call.ptrNull \/ IsZero(call.len)))
        => (ret = "false" /\ trace = << >>)

C6_Witness ==
    /\ call.op = "read" /\ ~call.hNull /\ ~call.ptrNull /\ IsZero(call.len)
    /\ Usable(handle) /\ ret = "false"

\* C7: when mram_write returns true the write-enable latch is clear and the
\* last transaction of the operation is a completed write-disable; a
\* mram_is_write_enabled right after it returns false.
C7_LatchClearAfterWrite ==
    /\ (call.op = "write" /\ ret = "true")
           => /\ ~dev.wel
              /\ Txns # << >>
              /\ Txns[Len(Txns)].opc = MRAM_CMD_WRDI
              /\ Completed(Txns[Len(Txns)])
    /\ (call.op = "is_write_enabled" /\ prev.op = "write") => ret = "false"

C7_Witness ==
    /\ call.op = "is_write_enabled" /\ prev.op = "write"
    /\ AllSucceeded /\ Len(trace) = 4 /\ ret = "false"

\* C8: a mram_read_status_register that returns true right after a
\* mram_write_status_register(v) that returned true yields v with bit 1
\* cleared (stated here for the v whose reserved bits are 0, which the chip
\* stores as written, and for runs in which no gpio_write has ever failed).
C8_StatusReadBack ==
    (/\ call.op = "read_status" /\ ret = "true"
     /\ prev.op = "write_status" /\ ~pinFailed
     /\ BitAnd(prev.v, 255 - StatusWritable - MRAM_STATUS_WEL) = 0)
        => status = BitAnd(prev.v, 255 - MRAM_STATUS_WEL)

\* C9: in mram_write, when the write-enable and the data transaction complete
\* and the write-disable fails, the result is false; when the write-enable
\* fails, the result is false and no data transaction is opened.
C9_WriteFailurePropagates ==
    call.op = "write" =>
        /\ (/\ Len(Txns) = 3
            /\ Completed(Txns[1]) /\ Completed(Txns[2]) /\ ~Completed(Txns[3]))
               => ret = "false"
        /\ (Len(Txns) >= 1 /\ ~Completed(Txns[1]))
               => (ret = "false" /\ Len(Txns) = 1)

C9_Witness ==
    /\ call.op = "write" /\ ret = "false" /\ Len(Txns) = 3
    /\ Completed(Txns[1]) /\ Completed(Txns[2])
    /\ Txns[2].opc = MRAM_CMD_WRITE
    /\ Txns[3].opc = MRAM_CMD_WRDI /\ ~Txns[3].ok

\* C10: once a capability call has failed, the operation makes at most one
\* more call, a write of HIGH to chip-select that is not the failed call
\* again, and returns false.
C10_FailFast ==
    (call.op # "none" /\ ~AllSucceeded) =>
        /\ ret = "false"
        /\ Len(trace) <= FirstFailure + 1
        /\ Len(trace) = FirstFailure + 1 =>
               /\ IsGpio(trace[Len(trace)], MRAM_GPIO_HIGH)
               /\ ~IsGpio(trace[FirstFailure], MRAM_GPIO_HIGH)

C10_Witness ==
    /\ call.op = "read" /\ ret = "false" /\ Len(trace) = 3
    /\ IsSpi(trace[2]) /\ ~trace[2].ok
    /\ IsGpio(trace[3], MRAM_GPIO_HIGH) /\ trace[3].ok

\* the microseconds mram_sleep and mram_wake must wait
MinDelay == IF call.op = "sleep" THEN MRAM_TDP_US ELSE MRAM_TRDP_US

IsDelay(e) == e.fn = "usleep"

\* C11: mram_sleep (mram_wake) returns true only with a delay of at least
\* 100 (400) microseconds as its last step, right after a successful write of
\* HIGH to chip-select that closed the completed command; when a step of the
\* command fails it returns false, without the delay.
C11_DelayBeforeReturn ==
    call.op \in {"sleep", "wake"} =>
        /\ ret = "true" =>
               /\ Len(trace) = 4
               /\ IsDelay(trace[4]) /\ trace[4].len >= MinDelay
               /\ IsGpio(trace[3], MRAM_GPIO_HIGH) /\ trace[3].ok
               /\ Len(Txns) = 1 /\ Completed(Txns[1])
               /\ Txns[1].opc = (IF call.op = "sleep" THEN MRAM_CMD_SLEEP
                                 ELSE MRAM_CMD_WAKE)
        /\ ~AllSucceeded => ret = "false"
        /\ ret = "false" => \A i \in 1..Len(trace) : ~IsDelay(trace[i])

C11_Witness ==
    /\ call.op = "wake" /\ ret = "true"
    /\ Len(trace) = 4 /\ IsDelay(trace[4]) /\ trace[4].len = MRAM_TRDP_US

\* the status bit a query reports
QueryMask ==
    IF call.op = "is_write_enabled" THEN MRAM_STATUS_WEL
    ELSE IF call.op = "is_write_protected" THEN MRAM_STATUS_WPEN
    ELSE IF call.v = 0 THEN MRAM_STATUS_BP0
    ELSE MRAM_STATUS_BP1

IsQuery ==
    \/ call.op \in {"is_write_enabled", "is_write_protected"}
    \/ call.op = "is_block_protected" /\ call.v \in {0, 1}

\* the status read of the operation completed: CS low, RDSR, the filler
\* byte with its inbound byte captured, CS high
StatusReadDone ==
    /\ Len(trace) = 4 /\ AllSucceeded
    /\ IsGpio(trace[1], MRAM_GPIO_LOW)
    /\ IsSpi(trace[2]) /\ trace[2].tx = <<MRAM_CMD_RDSR>>
    /\ IsSpi(trace[3]) /\ trace[3].rxcap /\ Len(trace[3].rx) = 1
    /\ IsGpio(trace[4], MRAM_GPIO_HIGH)

\* C12: on a handle, mram_is_write_enabled, mram_is_write_protected and
\* mram_is_block_protected(n), n in {0, 1}, make one status-register read
\* transaction and return true exactly when it completed and bit 1, bit 7,
\* bit 2 + n of the byte read is set.
C12_QueryReflectsBit ==
    (IsQuery /\ ~call.hNull) =>
        /\ Len(Txns) = 1 /\ IsCommand(Txns[1], MRAM_CMD_RDSR)
        /\ ret = "true" <=>
               (StatusReadDone /\ BitAnd(trace[3].rx[1], QueryMask) # 0)

C12_Witness ==
    /\ call.op = "is_block_protected" /\ call.v = 0 /\ ~call.hNull
    /\ StatusReadDone /\ trace[3].rx[1] = MRAM_STATUS_BP1 /\ ret = "false"

\* C13: mram_init with a NULL handle, gpio_write or spi_transfer returns
\* false, calls no capability and leaves the handle as it was.
C13_InitRejectsNull ==
    [][(call'.op = "init" /\ (call'.hNull \/ call'.ptrNull))
           => (ret' = "false" /\ trace' = << >> /\ handle' = handle)]_vars

C13_Witness ==
    /\ call.op = "init" /\ ~call.hNull /\ call.ptrNull
    /\ Usable(handle) /\ ret = "false"

\* what a capability call that succeeded looks like in the trace
PinWrite(level) ==
    Event("gpio", handle.cs_pin, level, << >>, FALSE, 0, << >>, TRUE)

SendOnly(tx) == Event("spi", 0, 0, tx, FALSE, Len(tx), << >>, TRUE)

\* a one-byte command transaction that completed
CommandTrace(cmd) ==
    <<PinWrite(MRAM_GPIO_LOW), SendOnly(<<cmd>>), PinWrite(MRAM_GPIO_HIGH)>>

\* addr >> 16, addr >> 8, addr of the caller's 32-bit address, as bytes
AddrBytes(c) == <<c.addr[2] % 256, c.addr[1] \div 256, c.addr[1] % 256>>

\* C14: a mram_write that returns true has made exactly these calls: the
\* write-enable transaction, one transaction with a single send-only exchange
\* of the 4 + len bytes 0x02, a >> 16, a >> 8, a, data, and the write-disable
\* transaction.
C14_WriteTrace ==
    (call.op = "write" /\ ret = "true") =>
        trace = CommandTrace(MRAM_CMD_WREN)
                \o <<PinWrite(MRAM_GPIO_LOW),
                     SendOnly(<<MRAM_CMD_WRITE>> \o AddrBytes(call) \o call.data),
                     PinWrite(MRAM_GPIO_HIGH)>>
                \o CommandTrace(MRAM_CMD_WRDI)

C14_Witness ==
    /\ call.op = "write" /\ ret = "true" /\ Len(trace) = 9
    /\ trace[5].tx = <<2, 7, 255, 254, 170, 85>> /\ trace[5].len = 6

\* C15: when mram_read or mram_write gets past its range check (it touches
\* the bus), the address is at most 524287, the mask leaves it as it is, and
\* the three address bytes on the wire are the caller's address, most
\* significant byte first, the first at most 0x07.
C15_AddressOnWire ==
    (call.op \in {"read", "write"} /\ trace # << >>) =>
        /\ ~Greater(call.addr, Limbs(MRAM_MAX_ADDRESS, AddrLimbs))
        /\ MaskAddress(call.addr) = ToNat(call.addr)
        /\ \A i \in 1..Len(trace) :
               (IsSpi(trace[i]) /\ Len(trace[i].tx) >= 4) =>
                   /\ SubSeq(trace[i].tx, 2, 4) = AddrBytes(call)
                   /\ trace[i].tx[2] <= 7

C15_Witness ==
    /\ call.op = "read" /\ call.addr = Limbs(MRAM_MAX_ADDRESS, AddrLimbs)
    /\ Len(trace) >= 2 /\ IsSpi(trace[2])
    /\ trace[2].tx = <<MRAM_CMD_READ, 7, 255, 255>>

\* a capability call of the operation failed
TransportFailed == ~AllSucceeded

\* C16: a mram_read that returns false because a capability call failed has
\* modified no byte of the caller's buffer.
C16_BufferUntouchedOnFailure ==
    (call.op = "read" /\ ret = "false" /\ TransportFailed)
        => buffer = BufInit(call.len)

\* C17: a mram_read_status_register that returns true has made exactly the
\* calls CS low, a send-only exchange of 0x05, a one-byte exchange whose
\* inbound byte is *status, CS high; *status is stored to (it is no longer
\* the caller's 0xEE, which the chip never returns) only when both exchanges
\* succeeded.
C17_StatusReadShape ==
    call.op = "read_status" =>
        /\ ret = "true" =>
               /\ StatusReadDone
               /\ trace[1] = PinWrite(MRAM_GPIO_LOW)
               /\ trace[2] = SendOnly(<<MRAM_CMD_RDSR>>)
               /\ Len(trace[3].tx) = 1 /\ trace[3].len = 1
               /\ trace[4] = PinWrite(MRAM_GPIO_HIGH)
               /\ status = trace[3].rx[1]
        /\ status # 238 =>
               /\ Len(trace) >= 3
               /\ IsSpi(trace[2]) /\ trace[2].ok
               /\ IsSpi(trace[3]) /\ trace[3].ok
               /\ status = trace[3].rx[1]

C17_Witness ==
    /\ call.op = "read_status" /\ ret = "true"
    /\ StatusReadDone /\ status = MRAM_STATUS_BP0

\* C18: every spi_transfer call of an operation comes after a successful
\* gpio_write(cs_pin, LOW) of the same operation with no gpio_write in
\* between.
C18_ExchangeOnlyWhileSelected ==
    \A i \in 1..Len(trace) :
        IsSpi(trace[i]) =>
            \E j \in 1..(i - 1) :
                /\ IsGpio(trace[j], MRAM_GPIO_LOW) /\ trace[j].ok
                /\ trace[j].pin = handle.cs_pin
                /\ \A k \in (j + 1)..(i - 1) : IsSpi(trace[k])

C18_Witness ==
    /\ call.op = "write_status" /\ Len(trace) >= 6
    /\ IsGpio(trace[4], MRAM_GPIO_LOW) /\ trace[4].ok
    /\ IsSpi(trace[5]) /\ IsSpi(trace[6])

\* C19: in every operation a write-status (0x01) transaction comes right
\* after a completed write-enable (0x06) transaction of the same operation;
\* so also in a mram_write_status_register called right after a mram_read.
C19_WriteStatusAfterEnable ==
    /\ \A i \in 1..Len(Txns) :
           Txns[i].opc = MRAM_CMD_WRSR =>
               /\ i > 1
               /\ Txns[i - 1].opc = MRAM_CMD_WREN /\ Completed(Txns[i - 1])
    /\ (call.op = "write_status" /\ prev.op = "read" /\ Txns # << >>)
           => IsCommand(Txns[1], MRAM_CMD_WREN)

C19_Witness ==
    /\ call.op = "write_status" /\ prev.op = "read" /\ ret = "true"
    /\ Len(Txns) = 3 /\ Txns[1].opc = MRAM_CMD_WREN /\ Txns[2].opc = MRAM_CMD_WRSR

\* C20: mram_init returns true exactly when the three pointers are non-NULL
\* and it made the calls gpio_write(cs_pin, HIGH), CS low, 0x04, CS high with
\* every one succeeding; after it returned true chip-select is high, the
\* latch is clear and the handle holds the capabilities and the pin.
C20_InitEstablishes ==
    call.op = "init" =>
        /\ ret = "true" <=>
               /\ ~call.hNull /\ ~call.ptrNull
               /\ trace = <<PinWrite(MRAM_GPIO_HIGH)>> \o CommandTrace(MRAM_CMD_WRDI)
        /\ ret = "true" =>
               /\ cs = MRAM_GPIO_HIGH
               /\ ~dev.wel
               /\ handle = [gpio_write |-> "fn", spi_transfer |-> "fn",
                            cs_pin |-> call.v]

C20_Witness ==
    /\ call.op = "init" /\ ret = "true" /\ Len(trace) = 4
    /\ cs = MRAM_GPIO_HIGH /\ ~dev.wel /\ Usable(handle)

\* C21: mram_is_block_protected, for whatever block_number, returns true
\* only if BP0 (bit 2) or BP1 (bit 3) is set in the status byte it read.
C21_OnlyBlockProtectBits ==
    (call.op = "is_block_protected" /\ ret = "true") =>
        /\ StatusReadDone
        /\ BitAnd(trace[3].rx[1], MRAM_STATUS_BP0 + MRAM_STATUS_BP1) # 0

====
